---- MODULE Spec2Model ----
(***************************************************************************)
(* Model of the color-preserving vectorization service (python-service).   *)
(*                                                                         *)
(* Spec         one POST /process request of app_color.py, stage by stage. *)
(* SpecPalette  the palette extractor of color_cleanup.py applied twice to *)
(*              one image, mask and requested color count.                 *)
(* SpecThreads  two requests handled at once by the threaded server, down  *)
(*              to the temporary files of their tracer invocations.        *)
(* SpecAnnotate postprocess_svg applied once to the text of a document.    *)
(*                                                                         *)
(* Masks are modelled by their set of set pixels (value > 128).  Every use *)
(* of a mask in the pipeline is either the test "> 128", a min/max         *)
(* morphology step or an AND with a 0/255 mask, and all of these commute   *)
(* with the threshold.  Colors are BGR triples of 8-bit channels.          *)
(***************************************************************************)
EXTENDS Integers, Sequences, FiniteSets, TLC

(***************************************************************************)
(* Bounds of the model.                                                    *)
(***************************************************************************)
GridW == 30
GridH == 14
MaxTone == 1

(***************************************************************************)
(* Pixels and masks.                                                       *)
(***************************************************************************)
Grid == {<<x, y>> : x \in 0..(GridW - 1), y \in 0..(GridH - 1)}

InGrid(x, y) == x >= 0 /\ x < GridW /\ y >= 0 /\ y < GridH

Rect(x0, y0, x1, y1) ==
    {p \in Grid : p[1] >= x0 /\ p[1] <= x1 /\ p[2] >= y0 /\ p[2] <= y1}

Area(mask) == Cardinality(mask)

(* An array or list given element by element, held as an explicit table   *)
(* of its values.                                                           *)
Array(f) == f @@ <<>>

Min(a, b) == IF a < b THEN a ELSE b
Max(a, b) == IF a > b THEN a ELSE b

(* np.ones((k, k)) with the default anchor (-1,-1), which cv2 normalises to *)
(* (k div 2, k div 2): the offsets of the kernel cells from the anchor.     *)
KernelOffsets(k) == {i - (k \div 2) : i \in 0..(k - 1)}

(* cv2.erode: dst(p) = min over the kernel of src(p + offset); pixels       *)
(* outside the image do not take part (default border value).               *)
Erode(mask, k) ==
    {p \in Grid : \A dx \in KernelOffsets(k), dy \in KernelOffsets(k) :
        ~InGrid(p[1] + dx, p[2] + dy) \/ <<p[1] + dx, p[2] + dy>> \in mask}

(* cv2.dilate: dst(p) = max over the kernel of src(p + offset).             *)
Dilate(mask, k) ==
    {p \in Grid : \E dx \in KernelOffsets(k), dy \in KernelOffsets(k) :
        <<p[1] + dx, p[2] + dy>> \in mask}

RECURSIVE Iterate(_, _, _, _)
Iterate(op, mask, k, iterations) ==
    IF iterations = 0 THEN mask
    ELSE Iterate(op, IF op = "erode" THEN Erode(mask, k) ELSE Dilate(mask, k),
                 k, iterations - 1)

(* cv2.morphologyEx(mask, MORPH_OPEN, kernel, iterations): erode            *)
(* `iterations` times, then dilate `iterations` times.                      *)
MorphOpen(mask, k, iterations) ==
    Iterate("dilate", Iterate("erode", mask, k, iterations), k, iterations)

(* cv2.morphologyEx(mask, MORPH_CLOSE, kernel, iterations).                 *)
MorphClose(mask, k, iterations) ==
    Iterate("erode", Iterate("dilate", mask, k, iterations), k, iterations)

(***************************************************************************)
(* Colors.                                                                 *)
(***************************************************************************)
White == <<255, 255, 255>>
Black == <<0, 0, 0>>
Crimson == <<40, 40, 200>>
Navy == <<200, 60, 40>>
PureRed == <<0, 0, 255>>
PureBlue == <<255, 0, 0>>
(* at the same distance from Crimson and from Navy *)
Mauve == <<120, 50, 120>>

Byte(n) == n % 256

(* ColorInfo.__init__: hex = f"#{r:02x}{g:02x}{b:02x}".                     *)
HexDigit(n) ==
    <<"0", "1", "2", "3", "4", "5", "6", "7",
      "8", "9", "a", "b", "c", "d", "e", "f">>[n + 1]

Hex2(n) == HexDigit(n \div 16) \o HexDigit(n % 16)

HexOf(rgb) == "#" \o Hex2(rgb[1]) \o Hex2(rgb[2]) \o Hex2(rgb[3])

(* A sort, largest key first, that lists equal keys last to first.         *)
SortedIndicesDescTiesReversed(keys) ==
    LET n == Len(keys)
        key == Array(keys)
        Rank(i) == Cardinality({j \in 1..n : key[j] > key[i]})
                   + Cardinality({j \in (i + 1)..n : key[j] = key[i]}) + 1
    IN  Array([r \in 1..n |-> CHOOSE i \in 1..n : Rank(i) = r])

(* Stable sort, largest key first, as list.sort(key=..., reverse=True):   *)
(* the result lists the indices of `keys` in sorted order; elements with    *)
(* equal keys keep their original order.                                    *)
SortedIndicesDesc(keys) ==
    LET n == Len(keys)
        key == Array(keys)
        Rank(i) == Cardinality({j \in 1..n : key[j] > key[i]})
                   + Cardinality({j \in 1..(i - 1) : key[j] = key[i]}) + 1
    IN  Array([r \in 1..n |-> CHOOSE i \in 1..n : Rank(i) = r])

(* The elements of a finite set of integers in ascending order (np.unique). *)
RECURSIVE Ascending(_)
Ascending(S) ==
    IF S = {} THEN <<>>
    ELSE LET m == CHOOSE x \in S : \A y \in S : x <= y
         IN  <<m>> \o Ascending(S \ {m})

(***************************************************************************)
(* Input drawings.  A drawing is a list of flat-colored shapes on a white  *)
(* page; the decoded image cv_image gives every pixel its shape's color.   *)
(***************************************************************************)
Templates == {"blank", "two", "dot", "one", "edge", "squares", "hundred"}

Drawings ==
    Array([t \in Templates |->
        CASE t = "blank" -> <<>>
          [] t = "two"   -> <<[pixels |-> Rect(1, 1, 27, 4), color |-> Crimson],
                              [pixels |-> Rect(1, 6, 21, 10), color |-> Navy]>>
          [] t = "dot"   -> <<[pixels |-> Rect(2, 2, 6, 6), color |-> Crimson]>>
          [] t = "one"   -> <<[pixels |-> Rect(1, 1, 20, 8), color |-> Crimson]>>
          [] t = "edge"  -> <<[pixels |-> Rect(1, 1, 20, 8), color |-> PureRed]>>
          (* a red square on 60 percent of the page, a blue one on 20 *)
          [] t = "squares" -> <<[pixels |-> Rect(0, 0, 17, 13), color |-> PureRed],
                                [pixels |-> Rect(21, 0, 26, 13), color |-> PureBlue]>>
          (* a square of exactly 100 pixels *)
          [] t = "hundred" -> <<[pixels |-> Rect(2, 2, 11, 11), color |-> Crimson]>>])

InkedPixels ==
    Array([t \in Templates |->
        {p \in Grid : \E i \in 1..Len(Drawings[t]) : p \in Drawings[t][i].pixels}])

Inked(t) == InkedPixels[t]

SourceImages ==
    Array([t \in Templates |->
        Array([p \in Grid |->
            IF p \in InkedPixels[t]
            THEN Drawings[t][CHOOSE i \in 1..Len(Drawings[t]) :
                                p \in Drawings[t][i].pixels].color
            ELSE White])])

SourceImage(t) == SourceImages[t]

(***************************************************************************)
(* Stage 1: preprocessing (pipeline/preprocessing.py).                     *)
(***************************************************************************)

(* L channel of cv2.cvtColor(image, COLOR_BGR2LAB) for the colors of the   *)
(* drawings (8-bit L, sRGB input).                                         *)
Lightness(c) ==
    CASE c = White   -> 255
      [] c = Black   -> 0
      [] c = Crimson -> 113
      [] c = Navy    -> 86
      [] c = PureRed -> 136
      [] c = PureBlue -> 82

(* cv2.bitwise_and(image, image, mask=mask): pixels off the mask are zero. *)
ApplyMask(image, mask) ==
    Array([p \in Grid |-> IF p \in mask THEN image[p] ELSE Black])

remove_background_traditional(image) ==
    LET thresholded == {p \in Grid : Lightness(image[p]) <= 240}
        closed == MorphClose(thresholded, 3, 1)
        mask == MorphOpen(closed, 3, 1)
    IN  [image |-> ApplyMask(image, mask), mask |-> mask, fallback |-> TRUE]

(* What the foreground oracle (rembg.remove) does on one call: it returns  *)
(* an RGBA cut-out with an alpha mask, returns an image with three         *)
(* channels only, or raises.                                               *)
OracleMasks(t) ==
    {Inked(t), Inked(t) \ Rect(10, 0, 10, GridH - 1), {}}

OracleOutcomes(t) ==
    {[kind |-> "rgba", alpha |-> a] : a \in OracleMasks(t)}
    \cup {[kind |-> k, alpha |-> {}] : k \in {"rgb", "raises"}}

(* An oracle result without an alpha channel sent to the threshold         *)
(* fallback instead of being given a fully opaque mask.                    *)
remove_background_ai_alpha_required(image, REMBG_AVAILABLE, oracle) ==
    IF REMBG_AVAILABLE /\ oracle.kind = "rgba"
    THEN [image |-> ApplyMask(image, oracle.alpha), mask |-> oracle.alpha,
          fallback |-> FALSE]
    ELSE remove_background_traditional(image)

remove_background_ai(image, REMBG_AVAILABLE, oracle) ==
    IF REMBG_AVAILABLE
    THEN IF oracle.kind = "rgba"
         THEN [image |-> ApplyMask(image, oracle.alpha), mask |-> oracle.alpha,
               fallback |-> FALSE]
         ELSE IF oracle.kind = "rgb"
         THEN [image |-> image, mask |-> Grid, fallback |-> FALSE]
         ELSE remove_background_traditional(image)
    ELSE remove_background_traditional(image)

(* normalize_lighting (CLAHE on L) followed by reduce_noise_preserve_strokes *)
(* (bilateral filter): both rewrite pixel colors only.  The amount of the   *)
(* change is data dependent; it is modelled by a tone shift chosen per run. *)
Tones == 0..MaxTone

ToneShift(c, tone) == Array([i \in 1..3 |-> Min(255, c[i] + 4 * tone)])

normalize_lighting(image, tone) ==
    Array([p \in Grid |-> ToneShift(image[p], tone)])

reduce_noise_preserve_strokes(image) == image

(* The mask taken again from the denoised image, every pixel that is not   *)
(* white, instead of the one acquired in step 1.                           *)
preprocess_image_remasked(image, use_ai, REMBG_AVAILABLE, oracle, tone) ==
    LET removed == IF use_ai /\ REMBG_AVAILABLE
                   THEN remove_background_ai(image, REMBG_AVAILABLE, oracle)
                   ELSE remove_background_traditional(image)
        normalized == normalize_lighting(removed.image, tone)
        denoised == reduce_noise_preserve_strokes(normalized)
        remasked == {p \in Grid : denoised[p] # White}
    IN  [image |-> denoised, alpha |-> remasked, mask |-> remasked,
         acquired |-> removed.mask,
         fallback |-> removed.fallback,
         oracle_called |-> use_ai /\ REMBG_AVAILABLE]

(* `acquired` is the value of mask when step 1 returns (line 173).         *)
preprocess_image(image, use_ai, REMBG_AVAILABLE, oracle, tone) ==
    LET removed == IF use_ai /\ REMBG_AVAILABLE
                   THEN remove_background_ai(image, REMBG_AVAILABLE, oracle)
                   ELSE remove_background_traditional(image)
        normalized == normalize_lighting(removed.image, tone)
        denoised == reduce_noise_preserve_strokes(normalized)
    IN  [image |-> denoised, alpha |-> removed.mask, mask |-> removed.mask,
         acquired |-> removed.mask,
         fallback |-> removed.fallback,
         oracle_called |-> use_ai /\ REMBG_AVAILABLE]

(***************************************************************************)
(* Stage 2: color cleanup (pipeline/color_cleanup.py).                     *)
(***************************************************************************)

(* ColorInfo(rgb, count, percentage).  The percentage count/total*100 is   *)
(* kept as the exact fraction <<count * 100, total>>.                      *)
ColorInfo(rgb, count, total) ==
    [rgb |-> rgb, count |-> count, percentage |-> <<count * 100, total>>,
     hex |-> HexOf(rgb)]

DistinctColors(image, mask) == {image[p] : p \in mask}

CountOf(image, mask, c) == Cardinality({p \in mask : image[p] = c})

(* sklearn KMeans(n_clusters=k, random_state=42, n_init=10).fit on the     *)
(* foreground pixels, for inputs with d <= k distinct colors.  The          *)
(* k-means++ seeding only picks a point at distance zero from the chosen    *)
(* centers once every distinct color is a center, so centers 0..d-1 are the *)
(* distinct colors in an order of the library's choice and the remaining    *)
(* centers repeat one of them; a pixel is labelled with the first center    *)
(* equal to its color.                                                      *)
KMeansOutcomes(colors, k) ==
    LET d == Cardinality(colors)
    IN  {centers \in [0..(k - 1) -> colors] :
            \A i, j \in 0..(d - 1) : i # j => centers[i] # centers[j]}

(* The label of a color taken as the last center equal to it.             *)
LabelOfLast(centers, c) ==
    CHOOSE i \in DOMAIN centers :
        centers[i] = c /\ \A j \in DOMAIN centers : centers[j] = c => i >= j

LabelOf(centers, c) ==
    CHOOSE i \in DOMAIN centers :
        centers[i] = c /\ \A j \in DOMAIN centers : centers[j] = c => i <= j

(* The requested count raised to 3 but not capped at 7.                   *)
ClusterCountUncapped(mask, n_colors_arg) ==
    LET raised == Max(3, n_colors_arg)
    IN  IF Area(mask) < raised THEN Max(1, Area(mask)) ELSE raised

(* Lines 50 and 63-65: n_clusters handed to KMeans for a mask with at      *)
(* least one set pixel.                                                    *)
ClusterCount(mask, n_colors_arg) ==
    LET clamped == Max(3, Min(7, n_colors_arg))
    IN  IF Area(mask) < clamped THEN Max(1, Area(mask)) ELSE clamped

extract_dominant_colors(image, mask, n_colors_arg, centers) ==
    LET clamped == Max(3, Min(7, n_colors_arg))
        total_pixels == Area(mask)
        n_colors == ClusterCount(mask, n_colors_arg)
    IN  IF total_pixels = 0
        THEN [palette |-> <<>>, image |-> image, clustered |-> FALSE, n_colors |-> clamped,
              clusters |-> <<>>]
        ELSE
        LET colors == DistinctColors(image, mask)
            (* np.unique(labels, return_counts=True) *)
            unique == Ascending({LabelOf(centers, c) : c \in colors})
            counts == Array([j \in 1..Len(unique) |->
                          CountOf(image, mask,
                                  CHOOSE c \in colors : LabelOf(centers, c) = unique[j])])
            info == Array([i \in 1..n_colors |->
                        ColorInfo(<<centers[i - 1][3], centers[i - 1][2], centers[i - 1][1]>>,
                                  IF i - 1 < Len(counts) THEN counts[i] ELSE 0,
                                  total_pixels)])
            kept == SelectSeq(info, LAMBDA c : c.count * 100 >= 2 * total_pixels)
            order == SortedIndicesDesc(Array([i \in 1..Len(kept) |-> kept[i].count]))
        IN  [palette |-> Array([r \in 1..Len(kept) |-> kept[order[r]]]),
             (* color_mapped: the per-pixel writes go to a temporary copy *)
             image |-> Array([p \in Grid |-> IF p \in mask THEN Black ELSE White]),
             clustered |-> TRUE, n_colors |-> n_colors,
             (* the ColorInfo values of the loop at lines 93-101, by cluster *)
             clusters |-> info]

SquaredDistance(c1, c2) ==
    (c1[1] - c2[1]) * (c1[1] - c2[1]) + (c1[2] - c2[2]) * (c1[2] - c2[2])
    + (c1[3] - c2[3]) * (c1[3] - c2[3])

PaletteBGR(color_palette) ==
    Array([i \in 1..Len(color_palette) |->
        <<color_palette[i].rgb[3], color_palette[i].rgb[2], color_palette[i].rgb[1]>>])

(* An index at minimum distance, the last one when several are.           *)
NearestIndexLastOnTie(palette_bgr, c) ==
    CHOOSE i \in 1..Len(palette_bgr) :
        \A j \in 1..Len(palette_bgr) :
            /\ SquaredDistance(palette_bgr[i], c) <= SquaredDistance(palette_bgr[j], c)
            /\ (SquaredDistance(palette_bgr[j], c) = SquaredDistance(palette_bgr[i], c)
                    => i >= j)

(* np.argmin over the distances: the first index at minimum distance. *)
NearestIndex(palette_bgr, c) ==
    CHOOSE i \in 1..Len(palette_bgr) :
        \A j \in 1..Len(palette_bgr) :
            /\ SquaredDistance(palette_bgr[i], c) <= SquaredDistance(palette_bgr[j], c)
            /\ (SquaredDistance(palette_bgr[j], c) = SquaredDistance(palette_bgr[i], c)
                    => i <= j)

flatten_colors(image, mask, color_palette) ==
    IF color_palette = <<>> THEN image
    ELSE LET palette_bgr == PaletteBGR(color_palette)
             nearest == Array([c \in DistinctColors(image, mask) |->
                            palette_bgr[NearestIndex(palette_bgr, c)]])
         IN  Array([p \in Grid |-> IF p \in mask THEN nearest[image[p]] ELSE image[p]])

create_color_map(image, mask, n_colors, centers) ==
    LET extracted == extract_dominant_colors(image, mask, n_colors, centers)
    IN  [palette |-> extracted.palette,
         flattened |-> flatten_colors(image, mask, extracted.palette),
         clustered |-> extracted.clustered,
         n_clusters |-> IF extracted.clustered THEN extracted.n_colors ELSE 0,
         clusters |-> extracted.clusters]

(* The outcomes of the library for one call of create_color_map.           *)
ClusteringOutcomes(image, mask, n_colors_arg) ==
    IF mask = {} THEN {<<>>}
    ELSE KMeansOutcomes(DistinctColors(image, mask), ClusterCount(mask, n_colors_arg))

(***************************************************************************)
(* Stage 3: segmentation (pipeline/segmentation.py).                       *)
(***************************************************************************)

(* ColorRegion._calculate_bounds *)
CalculateBounds(mask) ==
    IF mask = {} THEN [x |-> 0, y |-> 0, width |-> 0, height |-> 0]
    ELSE LET xs == {p[1] : p \in mask}
             ys == {p[2] : p \in mask}
             x_min == CHOOSE v \in xs : \A w \in xs : v <= w
             x_max == CHOOSE v \in xs : \A w \in xs : v >= w
             y_min == CHOOSE v \in ys : \A w \in ys : v <= w
             y_max == CHOOSE v \in ys : \A w \in ys : v >= w
         IN  [x |-> x_min, y |-> y_min,
              width |-> x_max - x_min + 1, height |-> y_max - y_min + 1]

ColorRegion(color_info, mask) ==
    [color_info |-> color_info, mask |-> mask, bounds |-> CalculateBounds(mask)]

(* cv2.inRange(image, lower_bound, upper_bound), with the bounds computed  *)
(* as the code computes them: target_bgr is a uint8 array, so              *)
(* target_bgr - tolerance and target_bgr + tolerance wrap modulo 256       *)
(* before np.maximum(.., 0) and np.minimum(.., 255) are applied.           *)
LowerBound(target_bgr, tolerance) ==
    Array([i \in 1..3 |-> Max(Byte(target_bgr[i] - tolerance + 256), 0)])

UpperBound(target_bgr, tolerance) ==
    Array([i \in 1..3 |-> Min(Byte(target_bgr[i] + tolerance), 255)])

InRange(image, lower_bound, upper_bound) ==
    {p \in Grid : \A i \in 1..3 :
        lower_bound[i] <= image[p][i] /\ image[p][i] <= upper_bound[i]}

CandidateMask(image, mask, color_info, tolerance) ==
    LET target_bgr == <<color_info.rgb[3], color_info.rgb[2], color_info.rgb[1]>>
        color_mask == InRange(image, LowerBound(target_bgr, tolerance),
                              UpperBound(target_bgr, tolerance))
    IN  color_mask \cap mask

CleanedCandidate(image, mask, color_info, tolerance) ==
    MorphClose(MorphOpen(CandidateMask(image, mask, color_info, tolerance), 2, 1), 2, 1)

extract_color_regions(image, mask, color_palette, tolerance) ==
    LET cleaned == Array([i \in 1..Len(color_palette) |->
                       CleanedCandidate(image, mask, color_palette[i], tolerance)])
        significant == SelectSeq(Array([i \in 1..Len(color_palette) |-> i]),
                                 LAMBDA i : Area(cleaned[i]) > 100)
        regions == Array([j \in 1..Len(significant) |->
                       ColorRegion(color_palette[significant[j]], cleaned[significant[j]])])
        order == SortedIndicesDesc(Array([j \in 1..Len(regions) |-> Area(regions[j].mask)]))
    IN  Array([r \in 1..Len(regions) |-> regions[order[r]]])

clean_boundaries(mask, preserve_style) ==
    IF ~preserve_style
    THEN MorphClose(MorphOpen(mask, 3, 2), 3, 2)
    ELSE MorphOpen(mask, 2, 1)

segment_by_color(image, mask, color_palette, preserve_style) ==
    LET regions == extract_color_regions(image, mask, color_palette, 10)
    IN  Array([r \in 1..Len(regions) |->
            [regions[r] EXCEPT !.mask = clean_boundaries(regions[r].mask, preserve_style)]])

(***************************************************************************)
(* Stage 4: vectorization (pipeline/vectorization.py).                     *)
(***************************************************************************)

(* A path element: its fill and stroke attributes (Absent when the element *)
(* carries none) and its geometry d.                                       *)
Absent == "(absent)"

Path(fill, stroke, d) == [fill |-> fill, stroke |-> stroke, d |-> d]

(* The text of a tracer output file: empty, or a document of the tracer    *)
(* holding path elements.                                                  *)
EmptyText == [empty |-> TRUE, paths |-> <<>>]

TracerDocument(paths) == [empty |-> FALSE, paths |-> paths]

TracerPathLists ==
    { <<>>,
      <<Path(Absent, Absent, "M1 1L5 1L5 5z")>>,
      <<Path("#000000", Absent, "M1 1L5 1L5 5z"), Path(Absent, "#101010", "M2 2z")>> }

(* What can happen during one tracer invocation: creating the input file,  *)
(* writing the bitmap, creating the output file, running potrace (missing  *)
(* binary, 30 s timeout, non-zero exit), and what potrace leaves behind.   *)
TraceFailures ==
    {"tmp_input_fails", "imwrite_raises", "imwrite_false", "tmp_output_fails",
     "no_binary", "timeout", "exit_nonzero", "no_output_file", "empty_output"}

TraceOutcomes ==
    {[kind |-> k, paths |-> <<>>] : k \in TraceFailures}
    \cup {[kind |-> "ok", paths |-> ps] : ps \in TracerPathLists}

FailsAt(env, kinds) == env.kind \in kinds

(* The exception an outcome raises inside the invocation, "none" if the    *)
(* statements all return.                                                  *)
TracerException(env) ==
    CASE env.kind \in {"tmp_input_fails", "tmp_output_fails"} -> "OSError"
      [] env.kind = "imwrite_raises" -> "cv2.error"
      [] env.kind = "no_binary" -> "FileNotFoundError"
      [] env.kind = "timeout" -> "TimeoutExpired"
      [] env.kind \in {"exit_nonzero", "imwrite_false"} -> "CalledProcessError"
      [] OTHER -> "none"

(* A handler that names the process errors only: the timeout escapes it.   *)
HandledExceptionsProcessOnly ==
    {"OSError", "cv2.error", "FileNotFoundError", "CalledProcessError"}

(* The classes `except Exception` of vectorize_mask_to_svg handles. *)
HandledExceptions ==
    {"OSError", "cv2.error", "FileNotFoundError", "TimeoutExpired", "CalledProcessError"}

vectorize_mask_to_svg(mask, color_hex, preserve_style, env) ==
    LET (* with NamedTemporaryFile(suffix='.bmp', delete=False) as tmp_input *)
        input_created == ~FailsAt(env, {"tmp_input_fails"})
        (* cv2.imwrite(...) comes before tmp_input_path = tmp_input.name *)
        input_path_set == input_created /\ ~FailsAt(env, {"imwrite_raises"})
        output_created == input_path_set /\ ~FailsAt(env, {"tmp_output_fails"})
        output_path_set == output_created
        (* imwrite returning False leaves a bitmap potrace exits on *)
        ran == output_path_set /\ TracerException(env) = "none"
        output_exists == output_created /\ ~(ran /\ FailsAt(env, {"no_output_file"}))
        content == IF ran /\ output_exists /\ env.kind = "ok"
                   THEN TracerDocument(env.paths) ELSE EmptyText
        created == (IF input_created THEN {"bmp"} ELSE {})
                   \cup (IF output_created THEN {"svg"} ELSE {})
        (* finally: unlink every recorded path that exists *)
        deleted == (IF input_path_set THEN {"bmp"} ELSE {})
                   \cup (IF output_path_set /\ output_exists THEN {"svg"} ELSE {})
        existing == (IF input_created THEN {"bmp"} ELSE {})
                    \cup (IF output_exists THEN {"svg"} ELSE {})
    IN  [svg_content |-> content,
         raised |-> TracerException(env) \notin HandledExceptions \cup {"none"},
         created |-> created,
         left |-> existing \ deleted,
         turdsize |-> IF preserve_style THEN "3" ELSE "5",
         opttolerance |-> IF preserve_style THEN "0.2" ELSE "0.4",
         color |-> color_hex]

(* extract_paths_from_svg: every path element with its fill and stroke     *)
(* when present, fill="black" when it has neither.                         *)
extract_paths_from_svg(svg_content) ==
    IF svg_content.empty THEN <<>>
    ELSE Array([i \in 1..Len(svg_content.paths) |->
            LET p == svg_content.paths[i]
            IN  Path(IF p.fill # Absent THEN p.fill
                     ELSE IF p.stroke = Absent THEN "black" ELSE Absent,
                     p.stroke, p.d)])

(* Only the default fill="black" replaced, other fills left as emitted.    *)
RecolorBlackOnly(paths, color_hex) ==
    Array([i \in 1..Len(paths) |->
        [paths[i] EXCEPT !.fill = IF paths[i].fill = "black" THEN color_hex
                                  ELSE paths[i].fill]])

(* paths.replace('fill="black"', ..) then re.sub(r'fill="[^"]*"', ..)     *)
Recolor(paths, color_hex) ==
    Array([i \in 1..Len(paths) |->
        [paths[i] EXCEPT !.fill = IF paths[i].fill # Absent THEN color_hex ELSE Absent]])

Group(color_hex, paths, region) ==
    [fill |-> color_hex, stroke |-> "none", paths |-> paths, region |-> region]

(* One pass of the loop over the regions, from region i on.  `acc` holds   *)
(* the groups appended so far, the files left on disk, the number of       *)
(* tracer calls made and whether an exception escaped.                     *)
RECURSIVE TraceFrom(_, _, _, _, _)
TraceFrom(regions, envs, preserve_style, i, acc) ==
    IF i > Len(regions) \/ acc.raised THEN acc
    ELSE LET color_hex == regions[i].color_info.hex
             traced == vectorize_mask_to_svg(regions[i].mask, color_hex,
                                             preserve_style, envs[i])
             paths == extract_paths_from_svg(traced.svg_content)
             groups == IF ~traced.raised /\ ~traced.svg_content.empty /\ paths # <<>>
                       THEN Append(acc.groups, Group(color_hex, Recolor(paths, color_hex), i))
                       ELSE acc.groups
         IN  TraceFrom(regions, envs, preserve_style, i + 1,
                       [groups |-> groups,
                        left |-> acc.left \cup {<<i, f>> : f \in traced.left},
                        calls |-> acc.calls + 1,
                        raised |-> traced.raised])

Reverse(seq) == Array([i \in 1..Len(seq) |-> seq[Len(seq) + 1 - i]])

(* The groups inserted at the front of the document instead of appended.   *)
vectorize_regions_prepending(regions, image_width, image_height, preserve_style, envs) ==
    LET done == TraceFrom(regions, envs, preserve_style, 1,
                          [groups |-> <<>>, left |-> {}, calls |-> 0, raised |-> FALSE])
    IN  [svg |-> [width |-> image_width, height |-> image_height,
                  groups |-> Reverse(done.groups), metadata |-> <<>>],
         raised |-> done.raised, calls |-> done.calls, left |-> done.left]

vectorize_regions(regions, image_width, image_height, preserve_style, envs) ==
    LET done == TraceFrom(regions, envs, preserve_style, 1,
                          [groups |-> <<>>, left |-> {}, calls |-> 0, raised |-> FALSE])
    IN  [svg |-> [width |-> image_width, height |-> image_height,
                  groups |-> done.groups, metadata |-> <<>>],
         raised |-> done.raised, calls |-> done.calls, left |-> done.left]

(* The text of a document, line by line, as '\n'.join(svg_parts) lays it   *)
(* out, and its length in characters.                                      *)
PathText(p) ==
    "<path "
    \o (IF p.fill # Absent THEN "fill=\"" \o p.fill \o "\"" ELSE "")
    \o (IF p.fill # Absent /\ p.stroke # Absent THEN " " ELSE "")
    \o (IF p.stroke # Absent THEN "stroke=\"" \o p.stroke \o "\"" ELSE "")
    \o " d=\"" \o p.d \o "\"/>"

RECURSIVE Flatten(_)
Flatten(seqs) == IF seqs = <<>> THEN <<>> ELSE Head(seqs) \o Flatten(Tail(seqs))

GroupLines(g) ==
    <<"<g fill=\"" \o g.fill \o "\" stroke=\"" \o g.stroke \o "\">">>
    \o Array([i \in 1..Len(g.paths) |-> PathText(g.paths[i])])
    \o <<"</g>">>

SvgLines(svg) ==
    <<"<svg xmlns=\"http://www.w3.org/2000/svg\" width=\"" \o ToString(svg.width)
      \o "\" height=\"" \o ToString(svg.height)
      \o "\" viewBox=\"0 0 " \o ToString(svg.width) \o " " \o ToString(svg.height) \o "\">",
      "<g id=\"drawing\">">>
    \o Flatten(Array([i \in 1..Len(svg.groups) |-> GroupLines(svg.groups[i])]))
    \o <<"</g>", "</svg>">>

RECURSIVE TotalLen(_)
TotalLen(lines) == IF lines = <<>> THEN 0 ELSE Len(Head(lines)) + TotalLen(Tail(lines))

SvgLen(svg) == TotalLen(SvgLines(svg)) + Len(SvgLines(svg)) - 1

PathCount(svg) ==
    TotalLen(Array([i \in 1..Len(svg.groups) |-> svg.groups[i].paths]))

(***************************************************************************)
(* Stage 5: post-processing (pipeline/postprocessing.py).                  *)
(***************************************************************************)
optimize_svg_paths(svg_content) == svg_content

organize_svg_layers(svg_content) == svg_content

add_metadata(svg_content, colors, original_size, style) ==
    [svg_content EXCEPT !.metadata =
        <<[colors |-> Array([i \in 1..Len(colors) |-> colors[i].hex]),
           color_count |-> Len(colors),
           original_size |-> original_size,
           style |-> style]>>]

postprocess_svg(svg_content, colors, original_size, style) ==
    add_metadata(organize_svg_layers(optimize_svg_paths(svg_content)),
                 colors, original_size, style)

(* The document as text: the elements '\n'.join(svg_parts) separates, each *)
(* with the name of its tag.                                               *)
Element(tag, text) == [tag |-> tag, text |-> text]

GroupElements(g) ==
    LET lines == GroupLines(g)
    IN  Array([i \in 1..Len(lines) |->
            Element(IF i = 1 THEN "g" ELSE IF i = Len(lines) THEN "/g" ELSE "path",
                    lines[i])])

Elements(svg) ==
    <<Element("svg", SvgLines(svg)[1]), Element("g", SvgLines(svg)[2])>>
    \o Flatten(Array([i \in 1..Len(svg.groups) |-> GroupElements(svg.groups[i])]))
    \o <<Element("/g", "</g>"), Element("/svg", "</svg>")>>

RECURSIVE Join(_, _)
Join(texts, separator) ==
    IF texts = <<>> THEN ""
    ELSE IF Len(texts) = 1 THEN texts[1]
    ELSE texts[1] \o separator \o Join(Tail(texts), separator)

(* The comment of lines 57-64; processing_time is already formatted        *)
(* with two decimals.                                                      *)
MetadataComment(colors, original_size, processing_info) ==
    Element("comment",
        "<!--\n    Metadata:\n    - Colors: "
        \o Join(Array([i \in 1..Len(colors) |-> colors[i].hex]), ", ")
        \o "\n    - Color Count: " \o ToString(Len(colors))
        \o "\n    - Original Size: " \o ToString(original_size.width)
        \o "x" \o ToString(original_size.height)
        \o "\n    - Style: " \o processing_info.style
        \o "\n    - Processing Time: " \o processing_info.processing_time \o "s\n-->")

(* The comment put in front of the opening tag instead of behind it.       *)
add_metadata_text_before_tag(elements, colors, original_size, processing_info) ==
    LET matches == {i \in 1..Len(elements) : elements[i].tag = "svg"}
    IN  IF matches = {} THEN elements
        ELSE LET svg_tag == elements[CHOOSE i \in matches : \A j \in matches : i <= j]
                 metadata == MetadataComment(colors, original_size, processing_info)
             IN  Flatten(Array([i \in 1..Len(elements) |->
                        IF elements[i] = svg_tag THEN <<metadata, svg_tag>>
                        ELSE <<elements[i]>>]))

(* add_metadata on the text: re.search finds the first <svg ...> tag, and  *)
(* str.replace puts the comment behind every occurrence of that tag's text.*)
add_metadata_text(elements, colors, original_size, processing_info) ==
    LET matches == {i \in 1..Len(elements) : elements[i].tag = "svg"}
    IN  IF matches = {} THEN elements
        ELSE LET svg_tag == elements[CHOOSE i \in matches : \A j \in matches : i <= j]
                 metadata == MetadataComment(colors, original_size, processing_info)
             IN  Flatten(Array([i \in 1..Len(elements) |->
                        IF elements[i] = svg_tag THEN <<svg_tag, metadata>>
                        ELSE <<elements[i]>>]))

postprocess_svg_text(elements, colors, original_size, processing_info) ==
    add_metadata_text(organize_svg_layers(optimize_svg_paths(elements)),
                      colors, original_size, processing_info)

(***************************************************************************)
(* POST /process (app_color.py).                                           *)
(***************************************************************************)
MAX_FILE_SIZE == 10485760

ALLOWED_EXTENSIONS == {"png", "jpg", "jpeg", "webp"}

(* A filename is the list of its dot-separated parts; <<>> is ''.          *)
Lower(part) ==
    CASE part = "PNG" -> "png"
      [] part = "JPG" -> "jpg"
      [] OTHER -> part

allowed_file(filename) ==
    Len(filename) > 1 /\ Lower(filename[Len(filename)]) \in ALLOWED_EXTENSIONS

BaseRequest ==
    [has_image |-> TRUE, filename |-> <<"drawing", "png">>, size |-> 2048,
     decodable |-> TRUE, colorCount |-> 5, preserveStyle |-> TRUE, useAI |-> TRUE,
     template |-> "one"]

Requests ==
    {[BaseRequest EXCEPT !.has_image = FALSE]}
    \cup {[BaseRequest EXCEPT !.filename = f] :
            f \in {<<>>, <<"drawing">>, <<"drawing", "gif">>, <<"drawing", "PNG">>}}
    \cup {[BaseRequest EXCEPT !.size = n] : n \in {MAX_FILE_SIZE, MAX_FILE_SIZE + 1}}
    \cup {[BaseRequest EXCEPT !.decodable = FALSE]}
    \cup {[BaseRequest EXCEPT !.template = t, !.colorCount = c,
                              !.preserveStyle = ps, !.useAI = ai] :
            t \in Templates \ {"squares", "hundred"}, c \in {3, 4},
            ps \in BOOLEAN, ai \in BOOLEAN}
    \cup {[BaseRequest EXCEPT !.template = "squares", !.colorCount = 5,
                              !.preserveStyle = ps, !.useAI = ai] :
            ps \in BOOLEAN, ai \in BOOLEAN}
    \cup {[BaseRequest EXCEPT !.template = "hundred", !.colorCount = 3,
                              !.preserveStyle = ps, !.useAI = ai] :
            ps \in BOOLEAN, ai \in BOOLEAN}

Response(status, success, error) ==
    [status |-> status, success |-> success, error |-> error,
     svg |-> <<>>, colors |-> <<>>, metadata |-> <<>>]

(* The validation without the test of the payload size.                   *)
ValidateWithoutSizeLimit(req) ==
    IF ~req.has_image THEN "No image file provided"
    ELSE IF req.filename = <<>> THEN "No file selected"
    ELSE IF ~allowed_file(req.filename)
    THEN "Invalid file type. Allowed: PNG, JPG, JPEG, WebP"
    ELSE "ok"

(* Lines 64-97: the reason a request is rejected before the pipeline, or   *)
(* "ok".                                                                   *)
Validate(req) ==
    IF ~req.has_image THEN "No image file provided"
    ELSE IF req.filename = <<>> THEN "No file selected"
    ELSE IF ~allowed_file(req.filename)
    THEN "Invalid file type. Allowed: PNG, JPG, JPEG, WebP"
    ELSE IF req.size > MAX_FILE_SIZE THEN "File too large"
    ELSE "ok"

(* Lines 148, 166 and 184: the checks between the stages. *)
(* The stage checks written as tests for a missing value: an empty list    *)
(* passes them.                                                            *)
NoColorsExtractedIsNone(color_palette) == FALSE

NoColorRegionsIsNone(color_regions) == FALSE

NoColorsExtracted(color_palette) == color_palette = <<>>

NoColorRegions(color_regions) == color_regions = <<>>

InvalidSvg(svg_content) == SvgLen(svg_content) < 100

(* ColorInfo.to_dict *)
to_dict(c) == [rgb |-> c.rgb, hex |-> c.hex, percentage |-> c.percentage]

StyleLabel(preserve_style) == IF preserve_style THEN "authentic" ELSE "clean"

(* colorCount taken from the regions instead of the palette.               *)
SuccessResponseCountingRegions(final_svg, color_palette, color_regions, preserve_style) ==
    [status |-> 200, success |-> TRUE, error |-> "",
     svg |-> <<final_svg>>,
     colors |-> Array([i \in 1..Len(color_palette) |-> to_dict(color_palette[i])]),
     metadata |-> <<[colorCount |-> Len(color_regions),
                     regionCount |-> Len(color_regions),
                     style |-> StyleLabel(preserve_style)]>>]

(* Lines 213-231: the success response. *)
SuccessResponse(final_svg, color_palette, color_regions, preserve_style) ==
    [status |-> 200, success |-> TRUE, error |-> "",
     svg |-> <<final_svg>>,
     colors |-> Array([i \in 1..Len(color_palette) |-> to_dict(color_palette[i])]),
     metadata |-> <<[colorCount |-> Len(color_palette),
                     regionCount |-> Len(color_regions),
                     style |-> StyleLabel(preserve_style)]>>]

VARIABLES
    pc,               \* position of the handler: the next step to run
    request,          \* the multipart request
    REMBG_AVAILABLE,  \* preprocessing.py: set once at import
    mask,             \* stage 1: foreground mask
    processed_alpha,  \* stage 1: alpha channel of processed_image
    acquired_mask,    \* stage 1: the mask background removal returned
    bgr_image,        \* stage 1: processed image
    color_palette,    \* stage 2
    color_flattened,  \* stage 2
    color_regions,    \* stage 3
    svg_content,      \* stage 4: <<document>> once produced
    response,         \* <<response>> once the handler has returned
    stages,           \* the stages completed so far, in order
    oracle_seen,      \* what the foreground oracle did when called, else "none"
    clustered,        \* whether stage 2 ran the clustering
    trace_envs,       \* what each tracer invocation of stage 4 met
    tmp_files,        \* temporary files of this request left on disk
    palette_pc,       \* SpecPalette: how many runs of the extractor are done
    palette_input,    \* SpecPalette: the image, mask and requested count
    palette_runs,     \* SpecPalette: what each run used and returned
    thread_state,     \* SpecThreads: the locals of each handler thread
    tmp_dir,          \* SpecThreads: the files of the temporary directory
    foreign_access,   \* SpecThreads: a thread touched a file of another one
    annotate_pc,      \* SpecAnnotate: "ready", then "done"
    annotate_input,   \* SpecAnnotate: the arguments of postprocess_svg
    annotate_output   \* SpecAnnotate: <<result>> once it has returned

pipeline_vars == <<pc, request, REMBG_AVAILABLE, mask, processed_alpha, acquired_mask,
                   bgr_image, color_palette,
                   color_flattened, color_regions, svg_content, response, stages,
                   oracle_seen, clustered, trace_envs, tmp_files>>

palette_vars == <<palette_pc, palette_input, palette_runs>>

thread_vars == <<thread_state, tmp_dir, foreign_access>>

annotate_vars == <<annotate_pc, annotate_input, annotate_output>>

vars == <<pipeline_vars, palette_vars, thread_vars, annotate_vars>>

NoImage == Array([p \in Grid |-> White])

Init ==
    /\ pc = "received"
    /\ request \in Requests
    /\ REMBG_AVAILABLE \in BOOLEAN
    /\ mask = {}
    /\ processed_alpha = {}
    /\ acquired_mask = {}
    /\ bgr_image = NoImage
    /\ color_palette = <<>>
    /\ color_flattened = NoImage
    /\ color_regions = <<>>
    /\ svg_content = <<>>
    /\ response = <<>>
    /\ stages = <<>>
    /\ oracle_seen = "none"
    /\ clustered = FALSE
    /\ trace_envs = <<>>
    /\ tmp_files = {}
    /\ palette_pc = "off"
    /\ palette_input = <<>>
    /\ palette_runs = <<>>
    /\ thread_state = <<>>
    /\ tmp_dir = <<>>
    /\ foreign_access = FALSE
    /\ annotate_pc = "off"
    /\ annotate_input = <<>>
    /\ annotate_output = <<>>

Return(r) == response' = <<r>> /\ pc' = "done"

(* Lines 61-127: validation, option parsing, decoding. *)
Receive ==
    /\ pc = "received"
    /\ IF Validate(request) # "ok"
       THEN Return(Response(400, FALSE, Validate(request)))
       ELSE IF ~request.decodable
       THEN Return(Response(500, FALSE, "Failed to process image"))
       ELSE pc' = "stage1" /\ UNCHANGED response
    /\ UNCHANGED <<request, REMBG_AVAILABLE, mask, processed_alpha, acquired_mask,
                   bgr_image, color_palette,
                   color_flattened, color_regions, svg_content, stages,
                   oracle_seen, clustered, trace_envs, tmp_files>>
    /\ UNCHANGED <<palette_vars, thread_vars, annotate_vars>>

(* Lines 129-136. *)
Stage1Preprocessing ==
    /\ pc = "stage1"
    /\ \E oracle \in OracleOutcomes(request.template), tone \in Tones :
          LET called == request.useAI /\ REMBG_AVAILABLE
              pre == preprocess_image(SourceImage(request.template), request.useAI,
                                      REMBG_AVAILABLE, oracle, tone)
          IN  /\ called \/ oracle.kind = "raises"
              /\ mask' = pre.mask
              /\ processed_alpha' = pre.alpha
              /\ acquired_mask' = pre.acquired
              /\ bgr_image' = pre.image
              /\ oracle_seen' = IF pre.oracle_called THEN oracle.kind ELSE "none"
    /\ stages' = Append(stages, 1)
    /\ pc' = "stage2"
    /\ UNCHANGED <<request, REMBG_AVAILABLE, color_palette, color_flattened,
                   color_regions, svg_content, response, clustered, trace_envs,
                   tmp_files>>
    /\ UNCHANGED <<palette_vars, thread_vars, annotate_vars>>

(* Lines 138-153. *)
Stage2ColorCleanup ==
    /\ pc = "stage2"
    /\ \E centers \in ClusteringOutcomes(bgr_image, mask, Max(3, Min(7, request.colorCount))) :
          LET made == create_color_map(bgr_image, mask,
                                       Max(3, Min(7, request.colorCount)), centers)
          IN  /\ color_palette' = made.palette
              /\ color_flattened' = made.flattened
              /\ clustered' = made.clustered
              /\ IF NoColorsExtracted(made.palette)
                 THEN Return(Response(500, FALSE, "Failed to extract colors from image"))
                 ELSE pc' = "stage3" /\ UNCHANGED response
    /\ stages' = Append(stages, 2)
    /\ UNCHANGED <<request, REMBG_AVAILABLE, mask, processed_alpha, acquired_mask,
                   bgr_image, color_regions,
                   svg_content, oracle_seen, trace_envs, tmp_files>>
    /\ UNCHANGED <<palette_vars, thread_vars, annotate_vars>>

(* Lines 155-171. *)
Stage3Segmentation ==
    /\ pc = "stage3"
    /\ LET regions == segment_by_color(color_flattened, mask, color_palette,
                                       request.preserveStyle)
       IN  /\ color_regions' = regions
           /\ IF NoColorRegions(regions)
              THEN Return(Response(500, FALSE, "Failed to segment image into color regions"))
              ELSE pc' = "stage4" /\ UNCHANGED response
    /\ stages' = Append(stages, 3)
    /\ UNCHANGED <<request, REMBG_AVAILABLE, mask, processed_alpha, acquired_mask,
                   bgr_image, color_palette,
                   color_flattened, svg_content, oracle_seen, clustered, trace_envs,
                   tmp_files>>
    /\ UNCHANGED <<palette_vars, thread_vars, annotate_vars>>

(* Lines 173-189. *)
Stage4Vectorization ==
    /\ pc = "stage4"
    /\ \E envs \in [1..Len(color_regions) -> TraceOutcomes] :
          LET made == vectorize_regions(color_regions, GridW, GridH,
                                        request.preserveStyle, envs)
          IN  /\ trace_envs' = Array([i \in 1..made.calls |-> envs[i]])
              /\ tmp_files' = made.left
              /\ IF made.raised
                 THEN /\ Return(Response(500, FALSE, "Failed to process image"))
                      /\ UNCHANGED <<svg_content, stages>>
                 ELSE /\ svg_content' = <<made.svg>>
                      /\ stages' = Append(stages, 4)
                      /\ IF InvalidSvg(made.svg)
                         THEN Return(Response(500, FALSE,
                                  "Vectorization failed or produced empty result"))
                         ELSE pc' = "stage5" /\ UNCHANGED response
    /\ UNCHANGED <<request, REMBG_AVAILABLE, mask, processed_alpha, acquired_mask,
                   bgr_image, color_palette,
                   color_flattened, color_regions, oracle_seen, clustered>>
    /\ UNCHANGED <<palette_vars, thread_vars, annotate_vars>>

(* Lines 191-231. *)
Stage5PostProcessing ==
    /\ pc = "stage5"
    /\ LET final_svg == postprocess_svg(svg_content[1], color_palette,
                                        [width |-> GridW, height |-> GridH],
                                        StyleLabel(request.preserveStyle))
       IN  Return(SuccessResponse(final_svg, color_palette, color_regions,
                                  request.preserveStyle))
    /\ stages' = Append(stages, 5)
    /\ UNCHANGED <<request, REMBG_AVAILABLE, mask, processed_alpha, acquired_mask,
                   bgr_image, color_palette,
                   color_flattened, color_regions, svg_content, oracle_seen,
                   clustered, trace_envs, tmp_files>>
    /\ UNCHANGED <<palette_vars, thread_vars, annotate_vars>>

Next ==
    \/ Receive
    \/ Stage1Preprocessing
    \/ Stage2ColorCleanup
    \/ Stage3Segmentation
    \/ Stage4Vectorization
    \/ Stage5PostProcessing

Spec == Init /\ [][Next]_vars

(***************************************************************************)
(* The palette extractor on its own: create_color_map applied twice to the *)
(* same image, mask and requested color count.                             *)
(***************************************************************************)

(* KMeans(..., random_state=42): line 75. *)
RANDOM_STATE == 42

(* A clustering that draws a fresh seed at every fit. *)
SeededOutcomesUnseeded(random_state, outcomes, earlier) == outcomes

(* What a later fit on the same data may return: with an integer           *)
(* random_state the library repeats the result of the earlier fit.         *)
SeededOutcomes(random_state, outcomes, earlier) ==
    IF random_state \in Int THEN {earlier} ELSE outcomes

(* An image of flat shapes on a white page; a pixel takes the color of the *)
(* first shape that holds it.                                              *)
Paint(shapes) ==
    Array([p \in Grid |->
        IF \E s \in 1..Len(shapes) : p \in shapes[s].pixels
        THEN shapes[CHOOSE s \in 1..Len(shapes) :
                        /\ p \in shapes[s].pixels
                        /\ \A r \in 1..(s - 1) : p \notin shapes[r].pixels].color
        ELSE White])

PaletteImages ==
    Array([name \in {"two", "tie"} |->
        IF name = "two" THEN SourceImage("two")
        ELSE Paint(<<[pixels |-> Rect(1, 1, 10, 5), color |-> Crimson],
                     [pixels |-> Rect(1, 7, 10, 11), color |-> Navy],
                     [pixels |-> Rect(12, 1, 12, 1), color |-> PureRed],
                     [pixels |-> Rect(14, 1, 14, 1), color |-> Mauve]>>)])

(* The masks tried with each image: the whole drawing, a few pixels of one *)
(* color, two pixels of two colors, and a mask whose rarest color is at    *)
(* 2 percent or below it.                                                  *)
PaletteMasks(name) ==
    IF name = "two"
    THEN {Inked("two"), {<<1, 4>>, <<1, 6>>}} \cup {Rect(1, 1, n, 1) : n \in 1..6}
    ELSE {Rect(1, 1, 10, 5) \cup Rect(1, 7, 10, 11) \cup Rect(12, 1, 12, 1),
          Rect(1, 1, 10, 5) \cup Rect(1, 7, 10, 11) \cup Rect(14, 1, 14, 1),
          Rect(1, 1, 10, 5) \cup Rect(1, 7, 10, 11),
          (Rect(1, 1, 10, 5) \ {<<10, 5>>}) \cup Rect(12, 1, 12, 1)}

RequestedCounts == {-1, 0, 2, 3, 5, 7, 9}

PaletteInputs ==
    {[image |-> name, mask |-> m, requested |-> n] :
        name \in {"two"}, m \in PaletteMasks("two"), n \in RequestedCounts}
    \cup {[image |-> name, mask |-> m, requested |-> n] :
        name \in {"tie"}, m \in PaletteMasks("tie"), n \in RequestedCounts}

PaletteRun(input, centers) ==
    LET made == create_color_map(PaletteImages[input.image], input.mask,
                                 input.requested, centers)
    IN  [centers |-> centers, n_clusters |-> made.n_clusters,
         palette |-> made.palette, flattened |-> made.flattened,
         clusters |-> made.clusters]

InitPalette ==
    /\ pc = "off"
    /\ request = BaseRequest
    /\ REMBG_AVAILABLE = FALSE
    /\ mask = {}
    /\ processed_alpha = {}
    /\ acquired_mask = {}
    /\ bgr_image = NoImage
    /\ color_palette = <<>>
    /\ color_flattened = NoImage
    /\ color_regions = <<>>
    /\ svg_content = <<>>
    /\ response = <<>>
    /\ stages = <<>>
    /\ oracle_seen = "none"
    /\ clustered = FALSE
    /\ trace_envs = <<>>
    /\ tmp_files = {}
    /\ palette_pc = "ready"
    /\ palette_input \in PaletteInputs
    /\ palette_runs = <<>>
    /\ thread_state = <<>>
    /\ tmp_dir = <<>>
    /\ foreign_access = FALSE
    /\ annotate_pc = "off"
    /\ annotate_input = <<>>
    /\ annotate_output = <<>>

ExtractFirst ==
    /\ palette_pc = "ready"
    /\ \E centers \in ClusteringOutcomes(PaletteImages[palette_input.image],
                                         palette_input.mask, palette_input.requested) :
          palette_runs' = <<PaletteRun(palette_input, centers)>>
    /\ palette_pc' = "once"
    /\ UNCHANGED <<pipeline_vars, palette_input, thread_vars, annotate_vars>>

ExtractAgain ==
    /\ palette_pc = "once"
    /\ \E centers \in SeededOutcomes(RANDOM_STATE,
                         ClusteringOutcomes(PaletteImages[palette_input.image],
                                            palette_input.mask, palette_input.requested),
                         palette_runs[1].centers) :
          palette_runs' = Append(palette_runs, PaletteRun(palette_input, centers))
    /\ palette_pc' = "twice"
    /\ UNCHANGED <<pipeline_vars, palette_input, thread_vars, annotate_vars>>

NextPalette ==
    \/ ExtractFirst
    \/ ExtractAgain

SpecPalette == InitPalette /\ [][NextPalette]_vars

(***************************************************************************)
(* Two requests handled at once: app.run(..., threaded=True) gives every   *)
(* request its own thread running process_image.  Stages 1 to 3 and 5 work *)
(* on the locals of the thread; what the threads share is the flag         *)
(* REMBG_AVAILABLE and the temporary directory of the tracer invocations.  *)
(* The regions of a request are named by their bitmaps.                    *)
(***************************************************************************)
Threads == {1, 2}

TempNames == {"tmp_a", "tmp_b", "tmp_c", "tmp_d"}

ThreadRequests == {[drawing |-> d, useAI |-> ai] : d \in {"x", "y"}, ai \in BOOLEAN}

(* The bitmaps of the regions stage 3 finds for a request. *)
RegionBitmaps(req) == IF req.drawing = "x" THEN <<"x1">> ELSE <<"y1", "y2">>

(* What a file holds: nothing yet, the bitmap of a region, or the document *)
(* potrace writes for a bitmap.                                            *)
EmptyFile == [kind |-> "empty", of |-> ""]

Bitmap(region) == [kind |-> "bitmap", of |-> region]

TracedPaths(bitmap) == [kind |-> "svg", of |-> bitmap.of]

(* A temporary file opened under a name that may be in use already. *)
FreshNamesReused(dir) == TempNames

(* tempfile.NamedTemporaryFile: a name no file of the directory has. *)
FreshNames(dir) == TempNames \ DOMAIN dir

File(content, creator) == [content |-> content, creator |-> creator]

Unlinked(dir, names) == [n \in DOMAIN dir \ names |-> dir[n]]

(* Whether thread t, using the file `name`, uses a file of another thread. *)
Foreign(dir, name, t) == name \in DOMAIN dir /\ dir[name].creator # t

InitThreads ==
    /\ pc = "off"
    /\ request = BaseRequest
    /\ REMBG_AVAILABLE \in BOOLEAN
    /\ mask = {}
    /\ processed_alpha = {}
    /\ acquired_mask = {}
    /\ bgr_image = NoImage
    /\ color_palette = <<>>
    /\ color_flattened = NoImage
    /\ color_regions = <<>>
    /\ svg_content = <<>>
    /\ response = <<>>
    /\ stages = <<>>
    /\ oracle_seen = "none"
    /\ clustered = FALSE
    /\ trace_envs = <<>>
    /\ tmp_files = {}
    /\ palette_pc = "off"
    /\ palette_input = <<>>
    /\ palette_runs = <<>>
    /\ thread_state \in [Threads -> {[pc |-> "start", request |-> r, used_ai |-> FALSE,
                                       regions |-> <<>>, region |-> 0,
                                       tmp_input |-> <<>>, tmp_input_path |-> <<>>,
                                       tmp_output_path |-> <<>>, svg_content |-> <<>>,
                                       groups |-> <<>>, response |-> <<>>] :
                                      r \in ThreadRequests}]
    /\ tmp_dir = <<>>
    /\ foreign_access = FALSE
    /\ annotate_pc = "off"
    /\ annotate_input = <<>>
    /\ annotate_output = <<>>

(* process_image up to the end of stage 3 (app_color.py 129-171);          *)
(* preprocess_image reads REMBG_AVAILABLE (preprocessing.py 167).          *)
ThreadSegment(t) ==
    LET th == thread_state[t]
    IN  /\ th.pc = "start"
        /\ thread_state' = [thread_state EXCEPT ![t] =
               [th EXCEPT !.used_ai = th.request.useAI /\ REMBG_AVAILABLE,
                          !.regions = RegionBitmaps(th.request),
                          !.region = 1,
                          !.pc = "create_input"]]
        /\ UNCHANGED <<pipeline_vars, palette_vars, annotate_vars, tmp_dir, foreign_access>>

(* vectorization.py 47: the input file is created. *)
ThreadCreateInput(t) ==
    LET th == thread_state[t]
    IN  /\ th.pc = "create_input"
        /\ \E name \in FreshNames(tmp_dir) :
              /\ tmp_dir' = (name :> File(EmptyFile, IF name \in DOMAIN tmp_dir
                                              THEN tmp_dir[name].creator ELSE t))
                             @@ tmp_dir
              /\ foreign_access' = (foreign_access \/ Foreign(tmp_dir, name, t))
              /\ thread_state' = [thread_state EXCEPT ![t] =
                     [th EXCEPT !.tmp_input = <<name>>, !.tmp_input_path = <<>>,
                                !.tmp_output_path = <<>>, !.svg_content = <<>>,
                                !.pc = "imwrite"]]
        /\ UNCHANGED <<pipeline_vars, palette_vars, annotate_vars>>

(* vectorization.py 48-49: the bitmap is written, then its path is kept. *)
ThreadWriteInput(t) ==
    LET th == thread_state[t]
        name == th.tmp_input[1]
    IN  /\ th.pc = "imwrite"
        /\ tmp_dir' = (name :> File(Bitmap(th.regions[th.region]),
                                     IF name \in DOMAIN tmp_dir
                                     THEN tmp_dir[name].creator ELSE t))
                       @@ tmp_dir
        /\ foreign_access' = (foreign_access \/ Foreign(tmp_dir, name, t))
        /\ thread_state' = [thread_state EXCEPT ![t] =
               [th EXCEPT !.tmp_input_path = <<name>>, !.pc = "create_output"]]
        /\ UNCHANGED <<pipeline_vars, palette_vars, annotate_vars>>

(* vectorization.py 52-53: the output file is created and its path kept. *)
ThreadCreateOutput(t) ==
    LET th == thread_state[t]
    IN  /\ th.pc = "create_output"
        /\ \E name \in FreshNames(tmp_dir) :
              /\ tmp_dir' = (name :> File(EmptyFile, IF name \in DOMAIN tmp_dir
                                              THEN tmp_dir[name].creator ELSE t))
                             @@ tmp_dir
              /\ foreign_access' = (foreign_access \/ Foreign(tmp_dir, name, t))
              /\ thread_state' = [thread_state EXCEPT ![t] =
                     [th EXCEPT !.tmp_output_path = <<name>>, !.pc = "potrace"]]
        /\ UNCHANGED <<pipeline_vars, palette_vars, annotate_vars>>

(* vectorization.py 61-71: potrace reads the input file and writes the     *)
(* output file; it exits with an error on an input that is no bitmap, and  *)
(* the handler of line 82 returns the empty text.                          *)
ThreadRunTracer(t) ==
    LET th == thread_state[t]
        input == th.tmp_input_path[1]
        output == th.tmp_output_path[1]
        readable == input \in DOMAIN tmp_dir /\ tmp_dir[input].content.kind = "bitmap"
    IN  /\ th.pc = "potrace"
        /\ foreign_access' = (foreign_access \/ Foreign(tmp_dir, input, t)
                                              \/ Foreign(tmp_dir, output, t))
        /\ IF readable
           THEN /\ tmp_dir' = (output :> File(TracedPaths(tmp_dir[input].content),
                                               IF output \in DOMAIN tmp_dir
                                               THEN tmp_dir[output].creator ELSE t))
                               @@ tmp_dir
                /\ thread_state' = [thread_state EXCEPT ![t] = [th EXCEPT !.pc = "read"]]
           ELSE /\ tmp_dir' = tmp_dir
                /\ thread_state' = [thread_state EXCEPT ![t] =
                       [th EXCEPT !.svg_content = <<>>, !.pc = "cleanup"]]
        /\ UNCHANGED <<pipeline_vars, palette_vars, annotate_vars>>

(* vectorization.py 74-80: the output file is read if it exists. *)
ThreadReadOutput(t) ==
    LET th == thread_state[t]
        output == th.tmp_output_path[1]
    IN  /\ th.pc = "read"
        /\ foreign_access' = (foreign_access \/ Foreign(tmp_dir, output, t))
        /\ thread_state' = [thread_state EXCEPT ![t] =
               [th EXCEPT !.svg_content = IF output \in DOMAIN tmp_dir
                                          THEN <<tmp_dir[output].content>> ELSE <<>>,
                          !.pc = "cleanup"]]
        /\ UNCHANGED <<pipeline_vars, palette_vars, annotate_vars, tmp_dir>>

(* vectorization.py 85-92: both recorded paths are unlinked; then          *)
(* vectorize_regions (178-189) appends the group of the region if its      *)
(* trace holds paths, and goes on with the next region.                    *)
ThreadCleanup(t) ==
    LET th == thread_state[t]
        paths == {th.tmp_input_path[i] : i \in 1..Len(th.tmp_input_path)}
                 \cup {th.tmp_output_path[i] : i \in 1..Len(th.tmp_output_path)}
        traced == th.svg_content # <<>> /\ th.svg_content[1].kind = "svg"
        groups == IF traced THEN Append(th.groups, th.svg_content[1].of) ELSE th.groups
    IN  /\ th.pc = "cleanup"
        /\ tmp_dir' = Unlinked(tmp_dir, paths)
        /\ foreign_access' = (foreign_access
                               \/ \E name \in paths : Foreign(tmp_dir, name, t))
        /\ thread_state' = [thread_state EXCEPT ![t] =
               [th EXCEPT !.groups = groups,
                          !.region = th.region + 1,
                          !.pc = IF th.region < Len(th.regions)
                                 THEN "create_input" ELSE "respond"]]
        /\ UNCHANGED <<pipeline_vars, palette_vars, annotate_vars>>

(* The response of a request: the background removal it used and the       *)
(* groups of its document, one per traced region.                          *)
ThreadResponse(used_ai, groups) ==
    [success |-> TRUE, background |-> IF used_ai THEN "ai" ELSE "traditional",
     groups |-> groups]

(* app_color.py 191-231. *)
ThreadRespond(t) ==
    LET th == thread_state[t]
    IN  /\ th.pc = "respond"
        /\ thread_state' = [thread_state EXCEPT ![t] =
               [th EXCEPT !.response = <<ThreadResponse(th.used_ai, th.groups)>>,
                          !.pc = "done"]]
        /\ UNCHANGED <<pipeline_vars, palette_vars, annotate_vars, tmp_dir, foreign_access>>

NextThreads ==
    \E t \in Threads :
        \/ ThreadSegment(t)
        \/ ThreadCreateInput(t)
        \/ ThreadWriteInput(t)
        \/ ThreadCreateOutput(t)
        \/ ThreadRunTracer(t)
        \/ ThreadReadOutput(t)
        \/ ThreadCleanup(t)
        \/ ThreadRespond(t)

SpecThreads == InitThreads /\ [][NextThreads]_vars

(***************************************************************************)
(* SpecAnnotate: postprocess_svg applied once to a document: one that      *)
(* vectorize_regions can build, or a text with no <svg ...> tag.           *)
(***************************************************************************)
SampleHexes == {"#c82828", "#283cc8"}

GroupChoices == (TracerPathLists \ {<<>>}) \X SampleHexes

GroupOf(choice, region) ==
    Group(choice[2],
          Recolor(extract_paths_from_svg(TracerDocument(choice[1])), choice[2]),
          region)

Stage4Documents ==
    {[width |-> GridW, height |-> GridH, groups |-> groups, metadata |-> <<>>] :
        groups \in {<<>>}
                   \cup {<<GroupOf(c, 1)>> : c \in GroupChoices}
                   \cup {<<GroupOf(c[1], 1), GroupOf(c[2], 2)>> :
                            c \in GroupChoices \X GroupChoices}}

(* The empty text and the texts left of a document without its first line. *)
RootlessTexts ==
    {<<>>} \cup {Tail(Elements(svg)) : svg \in {d \in Stage4Documents : Len(d.groups) <= 1}}

AnnotateColors ==
    {<<ColorInfo(<<200, 40, 40>>, 108, 272)>>,
     <<ColorInfo(<<40, 60, 200>>, 164, 272), ColorInfo(<<200, 40, 40>>, 108, 272)>>}

AnnotateInputs ==
    {[svg_content |-> text, colors |-> colors,
      original_size |-> [width |-> GridW, height |-> GridH],
      processing_info |-> [style |-> StyleLabel(preserve_style),
                           processing_time |-> processing_time]] :
        text \in {Elements(svg) : svg \in Stage4Documents} \cup RootlessTexts,
        colors \in AnnotateColors,
        preserve_style \in BOOLEAN,
        processing_time \in {"0.42", "12.00"}}

InitAnnotate ==
    /\ pc = "off"
    /\ request = BaseRequest
    /\ REMBG_AVAILABLE = FALSE
    /\ mask = {}
    /\ processed_alpha = {}
    /\ acquired_mask = {}
    /\ bgr_image = NoImage
    /\ color_palette = <<>>
    /\ color_flattened = NoImage
    /\ color_regions = <<>>
    /\ svg_content = <<>>
    /\ response = <<>>
    /\ stages = <<>>
    /\ oracle_seen = "none"
    /\ clustered = FALSE
    /\ trace_envs = <<>>
    /\ tmp_files = {}
    /\ palette_pc = "off"
    /\ palette_input = <<>>
    /\ palette_runs = <<>>
    /\ thread_state = <<>>
    /\ tmp_dir = <<>>
    /\ foreign_access = FALSE
    /\ annotate_pc = "ready"
    /\ annotate_input \in AnnotateInputs
    /\ annotate_output = <<>>

Annotate ==
    /\ annotate_pc = "ready"
    /\ annotate_output' = <<postprocess_svg_text(annotate_input.svg_content,
                                                 annotate_input.colors,
                                                 annotate_input.original_size,
                                                 annotate_input.processing_info)>>
    /\ annotate_pc' = "done"
    /\ UNCHANGED <<pipeline_vars, palette_vars, thread_vars, annotate_input>>

NextAnnotate == Annotate

SpecAnnotate == InitAnnotate /\ [][NextAnnotate]_vars

(***************************************************************************)
(* Properties.                                                             *)
(***************************************************************************)
Succeeded == response # <<>> /\ response[1].success

FailedWith(error) ==
    response = <<Response(500, FALSE, error)>>

ReturnedSvg == response[1].svg[1]

(* C1: a successful response never carries a document without path        *)
(* content; when no region contributes a path the answer is a 500.         *)
C1_NoZeroContentSuccess ==
    Succeeded => PathCount(ReturnedSvg) > 0

(* C2: every region returned by segment_by_color has a mask inside the     *)
(* foreground mask.                                                        *)
C2_RegionMasksInsideForeground ==
    \A r \in 1..Len(color_regions) : color_regions[r].mask \subseteq mask

(* C3: in the list returned by segment_by_color the set-pixel area never   *)
(* increases from one region to the next.                                  *)
C3_AreasNonIncreasing ==
    \A r \in 1..(Len(color_regions) - 1) :
        Area(color_regions[r].mask) >= Area(color_regions[r + 1].mask)

(* The regions whose tracer invocation returned at least one path, in the  *)
(* order of the region list.                                               *)
ContributingRegions ==
    SelectSeq(Array([i \in 1..Len(trace_envs) |-> i]),
              LAMBDA i : trace_envs[i].kind = "ok" /\ trace_envs[i].paths # <<>>)

(* C4: the groups of the document of vectorize_regions are, in order, the  *)
(* groups of the regions whose trace returned at least one path, each      *)
(* tagged with its region's color and holding its region's paths.          *)
C4_GroupsFollowRegionOrder ==
    svg_content # <<>> =>
        LET groups == svg_content[1].groups
            kept == ContributingRegions
        IN  /\ Len(trace_envs) = Len(color_regions)
            /\ Len(groups) = Len(kept)
            /\ \A j \in 1..Len(groups) :
                  /\ groups[j].region = kept[j]
                  /\ groups[j].fill = color_regions[kept[j]].color_info.hex
                  /\ Len(groups[j].paths) = Len(trace_envs[kept[j]].paths)

(* Two regions traced with success: two groups, in the regions' order. *)
C4_TwoGroupsInOrder ==
    /\ svg_content # <<>>
    /\ Len(color_regions) = 2
    /\ Len(svg_content[1].groups) = 2
    /\ svg_content[1].groups[1].region = 1
    /\ svg_content[1].groups[2].region = 2
    /\ svg_content[1].groups[1].fill # svg_content[1].groups[2].fill

(* C5: the regionCount of a successful response is the number of regions   *)
(* that contributed a group to the returned document.                      *)
C5_RegionCountIsContributors ==
    Succeeded => response[1].metadata[1].regionCount = Len(ReturnedSvg.groups)

(* C6: no temporary file of a tracer invocation is left on disk once the   *)
(* invocation has returned or raised.                                      *)
C6_TemporaryFilesDeleted ==
    tmp_files = {}

(* C7: once stage 4 has run, every region was traced, a document was       *)
(* returned, a region whose trace failed has no group in it, and the       *)
(* request was not aborted.                                                *)
C7_TracerFailureIsPerRegion ==
    color_regions # <<>> /\ pc \in {"stage5", "done"} =>
        /\ Len(trace_envs) = Len(color_regions)
        /\ svg_content # <<>>
        /\ \A i \in 1..Len(trace_envs) :
              trace_envs[i].kind # "ok" =>
                  \A j \in 1..Len(svg_content[1].groups) :
                      svg_content[1].groups[j].region # i
        /\ (response # <<>> => Succeeded)

(* The first region's trace times out, the second region is traced and    *)
(* the response is a success holding the second region's group only.       *)
C7_TimeoutThenTraced ==
    /\ Succeeded
    /\ Len(trace_envs) = 2
    /\ trace_envs[1].kind = "timeout"
    /\ trace_envs[2].kind = "ok"
    /\ Len(ReturnedSvg.groups) = 1
    /\ ReturnedSvg.groups[1].region = 2

(* The mask of the threshold fallback for a drawing. *)
ThresholdMask(t) == remove_background_traditional(SourceImage(t)).mask

(* C8: at the end of stage 1, whatever the oracle did, the request goes on *)
(* to stage 2 (preprocess_image has not failed): when the oracle is        *)
(* unavailable or raises the mask is the threshold fallback's, when it     *)
(* returns an image without alpha the mask is fully opaque, and with       *)
(* useAI=false (or no oracle installed) the oracle is not invoked.         *)
C8_OracleFailureNeverFails ==
    stages = <<1>> =>
        /\ (~request.useAI \/ ~REMBG_AVAILABLE => oracle_seen = "none")
        /\ (oracle_seen \in {"none", "raises"} =>
                mask = ThresholdMask(request.template))
        /\ (oracle_seen = "rgb" => mask = Grid)
        /\ pc = "stage2"
        /\ response = <<>>

(* The oracle returned an image without alpha: stage 2 is next. *)
C8_OpaqueMaskWithoutAlpha ==
    /\ stages = <<1>>
    /\ oracle_seen = "rgb"
    /\ mask = Grid
    /\ pc = "stage2"

(* C8 as stated: after any oracle failure, an image without alpha          *)
(* included, the mask is the threshold fallback's.                         *)
C8_FallbackMaskOnEveryOracleFailure ==
    stages = <<1>> /\ oracle_seen \in {"none", "raises", "rgb"} =>
        mask = ThresholdMask(request.template)

(* C9: the stages run in order, each after its predecessor; an empty       *)
(* palette ends the request after stage 2 with the 500 naming color        *)
(* extraction; an empty region list ends it after stage 3 with the other   *)
(* 500, naming segmentation.                                               *)
C9_FatalOutcomesHaltPipeline ==
    /\ Len(stages) <= 5
    /\ \A k \in 1..Len(stages) : stages[k] = k
    /\ (Len(stages) >= 2 /\ color_palette = <<>> =>
            /\ FailedWith("Failed to extract colors from image")
            /\ stages = <<1, 2>>)
    /\ (Len(stages) >= 3 /\ color_regions = <<>> =>
            /\ FailedWith("Failed to segment image into color regions")
            /\ stages = <<1, 2, 3>>)
    /\ (FailedWith("Failed to extract colors from image") => color_palette = <<>>)
    /\ (FailedWith("Failed to segment image into color regions") =>
            color_palette # <<>> /\ color_regions = <<>>)

(* A palette without any region above the area floor. *)
C9_EmptySegmentationReported ==
    /\ stages = <<1, 2, 3>>
    /\ color_palette # <<>>
    /\ color_regions = <<>>
    /\ FailedWith("Failed to segment image into color regions")

(* C10: with a foreground mask without set pixel, extract_dominant_colors  *)
(* returns an empty palette and its input image without clustering, and    *)
(* the request ends with the 500 of the empty palette.                     *)
C10_BlankMaskIsEmptyPalette ==
    Len(stages) >= 2 /\ mask = {} =>
        LET extracted == extract_dominant_colors(bgr_image, mask,
                                                 request.colorCount, <<>>)
        IN  /\ extracted.palette = <<>>
            /\ extracted.image = bgr_image
            /\ ~extracted.clustered
            /\ color_palette = <<>>
            /\ ~clustered
            /\ stages = <<1, 2>>
            /\ FailedWith("Failed to extract colors from image")

(* The blank drawing after stage 2. *)
C10_BlankImageRejected ==
    /\ request.template = "blank"
    /\ mask = {}
    /\ stages = <<1, 2>>
    /\ FailedWith("Failed to extract colors from image")

(* C11: a fit on a mask with at least as many set pixels as the clamped    *)
(* count uses min(7, max(3, requested)) clusters; below 3 it uses 3, above *)
(* 7 it uses 7.                                                            *)
C11_ClustersAreTheClampedCount ==
    \A r \in 1..Len(palette_runs) :
        LET requested == palette_input.requested
            wanted == IF requested < 3 THEN 3 ELSE IF requested > 7 THEN 7 ELSE requested
        IN  Area(palette_input.mask) >= wanted => palette_runs[r].n_clusters = wanted

(* A request for 9 colors on the whole two-color drawing.                  *)
C11_NineBecomesSeven ==
    /\ palette_runs # <<>>
    /\ palette_input.requested = 9
    /\ palette_input.mask = Inked("two")
    /\ palette_runs[1].n_clusters = 7
    /\ Len(palette_runs[1].palette) = 2

(* C12: on a mask with n set pixels, 1 <= n < clamped count, the fit uses   *)
(* n clusters and the palette returned has n entries.                      *)
C12_SmallMaskPaletteSize ==
    \A r \in 1..Len(palette_runs) :
        LET requested == palette_input.requested
            wanted == IF requested < 3 THEN 3 ELSE IF requested > 7 THEN 7 ELSE requested
            n == Area(palette_input.mask)
        IN  1 <= n /\ n < wanted =>
                /\ palette_runs[r].n_clusters = n
                /\ Len(palette_runs[r].palette) = n

(* C13: in a palette returned by create_color_map the percentages never    *)
(* increase along the list, each is at least 2.0, and two entries of equal *)
(* percentage stand in the order of their clusters.                        *)
C13_PaletteOrderedByPercentage ==
    \A r \in 1..Len(palette_runs) :
        LET palette == palette_runs[r].palette
            centers == palette_runs[r].centers
            Cluster(c) == LabelOf(centers, <<c.rgb[3], c.rgb[2], c.rgb[1]>>)
        IN  /\ \A i \in 1..Len(palette) :
                  (* percentage = count * 100 / total >= 2.0 *)
                  palette[i].percentage[1] >= 2 * palette[i].percentage[2]
            /\ \A i \in 1..(Len(palette) - 1) :
                  /\ palette[i].percentage[2] = palette[i + 1].percentage[2]
                  /\ palette[i].percentage[1] >= palette[i + 1].percentage[1]
                  /\ (palette[i].percentage[1] = palette[i + 1].percentage[1]
                        => Cluster(palette[i]) < Cluster(palette[i + 1]))

(* Two colors of 50 pixels each, the cluster of the second shape extracted *)
(* first, and a third color of one pixel in 101 left out of the palette.   *)
C13_TieKeepsClusterOrder ==
    /\ palette_runs # <<>>
    /\ palette_input.image = "tie"
    /\ Area(palette_input.mask) = 101
    /\ Len(palette_runs[1].palette) = 2
    /\ palette_runs[1].palette[1].count = 50
    /\ palette_runs[1].palette[2].count = 50
    /\ palette_runs[1].palette[1].hex = HexOf(<<Navy[3], Navy[2], Navy[1]>>)
    /\ palette_runs[1].centers[0] = PureRed

IsRed(rgb) == rgb[1] >= 245 /\ rgb[2] <= 10 /\ rgb[3] <= 10

IsBlue(rgb) == rgb[1] <= 10 /\ rgb[2] <= 10 /\ rgb[3] >= 245

(* C14: a red square on 60 percent of the page and a blue square on 20     *)
(* percent, colorCount 5, preserveStyle true, every trace returning paths: *)
(* the palette has 2 entries, the regions are [red, blue] and the document *)
(* holds their 2 groups in that order.                                     *)
C14_TwoSquaresScenario ==
    /\ pc = "done"
    /\ request.template = "squares"
    /\ request.colorCount = 5
    /\ request.preserveStyle
    /\ mask = Inked("squares")
    /\ \A i \in 1..Len(trace_envs) :
          trace_envs[i].kind = "ok" /\ trace_envs[i].paths # <<>>
    => /\ Succeeded
       /\ Len(color_palette) = 2
       /\ Len(color_regions) = 2
       /\ IsRed(color_regions[1].color_info.rgb)
       /\ IsBlue(color_regions[2].color_info.rgb)
       /\ Len(ReturnedSvg.groups) = 2
       /\ ReturnedSvg.groups[1].fill = color_regions[1].color_info.hex
       /\ ReturnedSvg.groups[2].fill = color_regions[2].color_info.hex

InvalidInput ==
    \/ ~request.has_image
    \/ request.filename = <<>>
    \/ Len(request.filename) < 2
    \/ request.filename[Len(request.filename)]
           \notin {"png", "jpg", "jpeg", "webp", "PNG", "JPG", "JPEG", "WEBP"}
    \/ request.size > 10485760

(* C16: a request rejected by input validation is answered 400 with        *)
(* success false, and no stage, oracle call, clustering or tracer call is   *)
(* made for it.                                                            *)
C16_RejectedBeforePipeline ==
    InvalidInput =>
        /\ pc \in {"received", "done"}
        /\ stages = <<>>
        /\ oracle_seen = "none"
        /\ ~clustered
        /\ trace_envs = <<>>
        /\ tmp_files = {}
        /\ svg_content = <<>>
        /\ (pc = "done" =>
               /\ response # <<>>
               /\ response[1].status = 400
               /\ ~response[1].success
               /\ response[1].svg = <<>>)

(* A payload one byte above the limit, rejected. *)
C16_OversizeRejected ==
    /\ pc = "done"
    /\ request.size = MAX_FILE_SIZE + 1
    /\ response = <<Response(400, FALSE, "File too large")>>
    /\ stages = <<>>

(* C18: for each palette color the candidate mask before cleaning holds    *)
(* exactly the foreground pixels whose every channel c satisfies           *)
(* max(0, p_c - 10) <= c <= min(255, p_c + 10).                            *)
C18_CandidateMaskWithinTolerance ==
    stages = <<1, 2, 3>> =>
        \A i \in 1..Len(color_palette) :
            LET target_bgr == <<color_palette[i].rgb[3], color_palette[i].rgb[2],
                                color_palette[i].rgb[1]>>
            IN  CandidateMask(color_flattened, mask, color_palette[i], 10)
                = {p \in mask : \A ch \in 1..3 :
                      /\ Max(0, target_bgr[ch] - 10) <= color_flattened[p][ch]
                      /\ color_flattened[p][ch] <= Min(255, target_bgr[ch] + 10)}

(* C19: a candidate is dropped exactly when its cleaned mask has fewer     *)
(* than 100 set pixels: every palette color whose cleaned mask has 100 set  *)
(* pixels or more has its region, and no other color has one.              *)
C19_AreaFloorIsHundred ==
    stages = <<1, 2, 3>> =>
        \A i \in 1..Len(color_palette) :
            Area(CleanedCandidate(color_flattened, mask, color_palette[i], 10)) >= 100
            <=> \E r \in 1..Len(color_regions) :
                    color_regions[r].color_info = color_palette[i]

(* C20: in the flattened image returned by create_color_map with a         *)
(* non-empty palette, every pixel off the foreground mask is white.        *)
C20_BackgroundIsWhite ==
    stages = <<1, 2>> /\ color_palette # <<>> =>
        \A p \in Grid \ mask : color_flattened[p] = White

(* The response a request gets when it is handled alone. *)
AloneResponse(req) ==
    ThreadResponse(req.useAI /\ REMBG_AVAILABLE, RegionBitmaps(req))

(* C17: of two requests handled at the same time each gets the response it *)
(* gets alone, each uses the flag set at import, and no thread reads,      *)
(* writes or deletes a temporary file another thread created.              *)
C17_ConcurrentRequestsAreIsolated ==
    /\ ~foreign_access
    /\ \A t \in DOMAIN thread_state :
          /\ (thread_state[t].pc # "start" =>
                 thread_state[t].used_ai
                 = (thread_state[t].request.useAI /\ REMBG_AVAILABLE))
          /\ (thread_state[t].pc = "done" =>
                 thread_state[t].response = <<AloneResponse(thread_state[t].request)>>)
    /\ \A name \in DOMAIN tmp_dir :
          \E t \in DOMAIN thread_state :
              /\ tmp_dir[name].creator = t
              /\ name \in {thread_state[t].tmp_input[i] :
                               i \in 1..Len(thread_state[t].tmp_input)}
                          \cup {thread_state[t].tmp_output_path[i] :
                                   i \in 1..Len(thread_state[t].tmp_output_path)}

(* Both threads in the middle of a tracer invocation, four files on disk,  *)
(* the first thread done with one region of two.                           *)
C17_TwoTracersAtOnce ==
    /\ thread_state # <<>>
    /\ thread_state[1].pc = "read"
    /\ thread_state[2].pc = "read"
    /\ thread_state[1].region = 2
    /\ thread_state[1].groups = <<"y1">>
    /\ Cardinality(DOMAIN tmp_dir) = 4

(* C21: in the flattened image every foreground pixel holds the color of   *)
(* the palette entry nearest to its input color, and of the earliest such  *)
(* entry when several are at the same distance.                            *)
C21_ForegroundTakesNearestEntry ==
    \A r \in 1..Len(palette_runs) :
        LET palette == palette_runs[r].palette
            image == PaletteImages[palette_input.image]
            Entry(i) == <<palette[i].rgb[3], palette[i].rgb[2], palette[i].rgb[1]>>
        IN  palette # <<>> =>
                \A p \in palette_input.mask :
                    \E i \in 1..Len(palette) :
                        /\ palette_runs[r].flattened[p] = Entry(i)
                        /\ \A j \in 1..Len(palette) :
                              SquaredDistance(Entry(i), image[p])
                              <= SquaredDistance(Entry(j), image[p])
                        /\ \A j \in 1..(i - 1) :
                              SquaredDistance(Entry(i), image[p])
                              < SquaredDistance(Entry(j), image[p])

(* A pixel of a color left out of the palette, at the same distance from   *)
(* both entries, takes the first entry, here the second shape's color.     *)
C21_TiedPixelTakesFirstEntry ==
    /\ palette_runs # <<>>
    /\ palette_input.image = "tie"
    /\ <<14, 1>> \in palette_input.mask
    /\ Len(palette_runs[1].palette) = 2
    /\ palette_runs[1].palette[1].rgb = <<Navy[3], Navy[2], Navy[1]>>
    /\ palette_runs[1].flattened[<<14, 1>>] = Navy

RECURSIVE SumOfCounts(_)
SumOfCounts(infos) ==
    IF infos = <<>> THEN 0 ELSE Head(infos).count + SumOfCounts(Tail(infos))

(* The foreground pixels KMeans assigns to cluster i: those of the color   *)
(* of center i that no earlier center has.                                 *)
AssignedTo(run, i) ==
    {p \in palette_input.mask :
        /\ PaletteImages[palette_input.image][p] = run.centers[i]
        /\ \A j \in 0..(i - 1) : run.centers[j] # PaletteImages[palette_input.image][p]}

C23_BoundsMatchReturnedMask ==
    stages = <<1, 2, 3>> =>
        \A r \in 1..Len(color_regions) :
            color_regions[r].bounds = CalculateBounds(color_regions[r].mask)

(* C27: every region segment_by_color returns still has at least the       *)
(* minimum area of 100 set pixels after clean_boundaries, so none is empty.*)
C27_ReturnedRegionsKeepTheFloor ==
    stages = <<1, 2, 3>> =>
        \A r \in 1..Len(color_regions) : Area(color_regions[r].mask) >= 100

(* C24: every group of the stage-4 document is tagged with its region's    *)
(* hex color as fill and with stroke none; each of its paths that has a    *)
(* fill has the region's hex color, whatever the tracer emitted, a path    *)
(* emitted with neither fill nor stroke included; the stroke and the       *)
(* geometry of every path are those the tracer emitted.                    *)
C24_PathsTakeTheRegionColor ==
    stages = <<1, 2, 3, 4>> =>
        LET groups == svg_content[1].groups
            kept == ContributingRegions
        IN  /\ Len(groups) = Len(kept)
            /\ \A j \in 1..Len(groups) :
                  LET color_hex == color_regions[kept[j]].color_info.hex
                      emitted == trace_envs[kept[j]].paths
                  IN  /\ groups[j].fill = color_hex
                      /\ groups[j].stroke = "none"
                      /\ Len(groups[j].paths) = Len(emitted)
                      /\ \A i \in 1..Len(emitted) :
                            /\ groups[j].paths[i].fill \in {Absent, color_hex}
                            /\ (emitted[i].fill # Absent \/ emitted[i].stroke = Absent)
                                   => groups[j].paths[i].fill = color_hex
                            /\ groups[j].paths[i].stroke = emitted[i].stroke
                            /\ groups[j].paths[i].d = emitted[i].d

(* One document where the tracer emitted a path with neither fill nor      *)
(* stroke for one region and, for another, a path filled #000000 next to   *)
(* a path with a stroke only.                                              *)
C24_TracerFillsOverridden ==
    /\ stages = <<1, 2, 3, 4>>
    /\ Len(svg_content[1].groups) = 2
    /\ \E j, k \in 1..2 :
          /\ trace_envs[j].paths = <<Path(Absent, Absent, "M1 1L5 1L5 5z")>>
          /\ svg_content[1].groups[j].paths[1].fill = color_regions[j].color_info.hex
          /\ trace_envs[k].paths[1].fill = "#000000"
          /\ svg_content[1].groups[k].paths[1].fill = color_regions[k].color_info.hex
          /\ svg_content[1].groups[k].paths[2] = Path(Absent, "#101010", "M2 2z")

(* C25: postprocess_svg returns its input with one metadata comment right  *)
(* behind the opening <svg ...> tag and every other element where it was;  *)
(* a text with no <svg ...> tag comes back as it is.                       *)
C25_PostprocessOnlyAnnotates ==
    annotate_pc = "done" =>
        LET given == annotate_input.svg_content
            final == annotate_output[1]
            tags == {i \in 1..Len(given) : given[i].tag = "svg"}
        IN  IF tags = {} THEN final = given
            ELSE /\ tags = {1}
                 /\ Len(final) = Len(given) + 1
                 /\ final[1] = given[1]
                 /\ final[2] = MetadataComment(annotate_input.colors,
                                               annotate_input.original_size,
                                               annotate_input.processing_info)
                 /\ \A i \in 2..Len(given) : final[i + 1] = given[i]
                 /\ Cardinality({i \in 1..Len(final) : final[i].tag = "comment"}) = 1

(* A document of two groups, annotated: the comment is its second element  *)
(* and the two groups follow.                                              *)
C25_AnnotatedTwoGroups ==
    /\ annotate_pc = "done"
    /\ Cardinality({i \in 1..Len(annotate_input.svg_content) :
                       annotate_input.svg_content[i].tag = "path"}) = 3
    /\ annotate_input.svg_content[1].tag = "svg"
    /\ annotate_output[1][2].tag = "comment"
    /\ Len(annotate_output[1]) = Len(annotate_input.svg_content) + 1

(* C26: at the end of stage 1 the mask is the one background removal       *)
(* produced (the oracle's alpha, the fully opaque mask for an oracle       *)
(* result without alpha, or the threshold fallback's), and the alpha       *)
(* channel of the processed image is that mask.                            *)
C26_MaskIsTheAcquiredMask ==
    stages = <<1>> =>
        /\ mask = acquired_mask
        /\ processed_alpha = acquired_mask
        /\ oracle_seen \in {"none", "raises"} => mask = ThresholdMask(request.template)
        /\ oracle_seen = "rgb" => mask = Grid
        /\ oracle_seen = "rgba" => mask \in OracleMasks(request.template)

(* The oracle cut a column out of the drawing and the lighting step        *)
(* changed the colors: mask and alpha are the oracle's mask, smaller than  *)
(* the inked area.                                                         *)
C26_OracleMaskSurvivesToneShift ==
    /\ stages = <<1>>
    /\ oracle_seen = "rgba"
    /\ mask = Inked(request.template) \ Rect(10, 0, 10, GridH - 1)
    /\ mask # Inked(request.template)
    /\ processed_alpha = mask
    /\ \E p \in mask : bgr_image[p] # SourceImage(request.template)[p]

(* C28: in a successful response every group of the document is filled     *)
(* with the hex of an entry of the colors list, no region has two groups,  *)
(* there are no more groups than colors, and metadata.colorCount is the    *)
(* length of the colors list.                                              *)
C28_ResponseIsConsistent ==
    Succeeded =>
        LET groups == ReturnedSvg.groups
            colors == response[1].colors
        IN  /\ \A j \in 1..Len(groups) :
                  /\ \E e \in 1..Len(colors) : groups[j].fill = colors[e].hex
                  /\ groups[j].region \in 1..Len(color_regions)
            /\ \A j, k \in 1..Len(groups) :
                  j # k => groups[j].region # groups[k].region
            /\ Len(groups) <= Len(colors)
            /\ response[1].metadata[1].colorCount = Len(colors)

(* A success with a group in the document and fewer regions than colors.   *)
C28_FewerRegionsThanColors ==
    /\ Succeeded
    /\ Len(ReturnedSvg.groups) >= 1
    /\ Len(color_regions) < Len(response[1].colors)
    /\ response[1].metadata[1].colorCount = Len(response[1].colors)

====
